---- MODULE Spec2Model ----
(***************************************************************************)
(* telemetry-events-instrument-method: the instrumented method returned by *)
(* exports.async and exports.sync of src/index.js, with its collaborators  *)
(* (logs sink, metrics sink, tracing span, target method, clock) as the    *)
(* environment.  Objects live on a heap so that copying, merging in place  *)
(* and aliasing are what the code makes them.                              *)
(***************************************************************************)
EXTENDS Integers, Sequences, FiniteSets, TLC

\* ------------------------------------------------------------------ bounds
\* Largest reading of the monotonic clock.
MaxTime == 2
\* How many times targets invoke the completion callbacks they were given, in
\* all.
MaxCallbacks == 2

\* ------------------------------------------------------------------ values
\* A JavaScript value: a primitive (a token in s) or a reference to a heap
\* object (r > 0).
Undef == [s |-> "undefined", r |-> 0]
Prim(x) == [s |-> x, r |-> 0]
Ref(i) == [s |-> "", r |-> i]
IsRef(v) == v.r > 0
\* The primitives JavaScript treats as false in `if (error)` and `a || b`.
FalsyTokens == {"undefined", "null", "zero", "false", ""}
Truthy(v) == IsRef(v) \/ v.s \notin FalsyTokens

\* ------------------------------------------------------------------- heap
\* A heap is a sequence of objects; an object maps its own keys to values.
EmptyObj == [k \in {} |-> Undef]
Put(o, k, v) == [x \in (DOMAIN o) \cup {k} |-> IF x = k THEN v ELSE o[x]]
Get(o, k) == IF k \in DOMAIN o THEN o[k] ELSE Undef
\* Every object reachable from value v (v's own object included).
RECURSIVE Reach(_, _)
Reach(h, v) ==
    IF ~IsRef(v) THEN {}
    ELSE {v.r} \cup UNION {Reach(h, h[v.r][k]) : k \in DOMAIN h[v.r]}

RECURSIVE CloneFields(_, _, _, _)
RECURSIVE clone(_, _)
\* clone(value): a deep copy; every object of the copy is freshly allocated.
\* Returns the heap after the allocations and the copy.
CloneFields(h, id, src, keys) ==
    IF keys = {} THEN [h |-> h, v |-> Ref(id)]
    ELSE LET k == CHOOSE x \in keys : TRUE
             c == clone(h, src[k])
         IN  CloneFields([c.h EXCEPT ![id] = Put(@, k, c.v)], id, src, keys \ {k})
\* A copy that is the original itself.
NoClone(h, v) == [h |-> h, v |-> v]
clone(h, v) ==
    IF ~IsRef(v) THEN [h |-> h, v |-> v]
    ELSE CloneFields(Append(h, EmptyObj), Len(h) + 1, h[v.r], DOMAIN h[v.r])

RECURSIVE ExtendKeys(_, _, _, _)
RECURSIVE ExtendShallowKeys(_, _, _, _)
\* A merge that replaces every key of the target by the source's value, nested
\* objects included (what extend does without its deep flag).
ExtendShallowKeys(h, tgt, src, keys) ==
    IF keys = {} THEN h
    ELSE LET k == CHOOSE x \in keys : TRUE
             copy == h[src][k]
             h1 == IF copy # Undef THEN [h EXCEPT ![tgt] = Put(@, k, copy)] ELSE h
         IN  ExtendShallowKeys(h1, tgt, src, keys \ {k})
\* extend(true, target, source) for one source: merges source into target in
\* place.  A plain-object value is merged recursively into the target's own
\* object under that key (a fresh {} when the target has none); any other value
\* but undefined is assigned.
ExtendKeys(h, tgt, src, keys) ==
    IF keys = {} THEN h
    ELSE LET k == CHOOSE x \in keys : TRUE
             old == Get(h[tgt], k)
             copy == h[src][k]
             h1 == IF IsRef(copy)
                   THEN IF IsRef(old)
                        THEN ExtendKeys(h, old.r, copy.r, DOMAIN h[copy.r])
                        ELSE LET fresh == Len(h) + 1
                                 h0 == Append(h, EmptyObj)
                                 hm == ExtendKeys(h0, fresh, copy.r, DOMAIN h0[copy.r])
                             IN  [hm EXCEPT ![tgt] = Put(@, k, Ref(fresh))]
                   ELSE IF copy # Undef
                        THEN [h EXCEPT ![tgt] = Put(@, k, copy)]
                        ELSE h
         IN  ExtendKeys(h1, tgt, src, keys \ {k})
extend(h, tgt, src) == ExtendKeys(h, tgt, src, DOMAIN h[src])

\* ------------------------------------------------------------------ state
VARIABLES
    config,     \* the InstrumentConfig given to exports.async / exports.sync
    broken,     \* the collaborator operation that throws when called ("none")
    dynamic,    \* the caller's per-call context objects
    heap,       \* the objects metadata values refer to
    now,        \* the reading of the monotonic clock (mark-time)
    calls,      \* each invocation's position and locals
    trace,      \* every call made to a collaborator or to the outward caller
    callsLeft,  \* invocations the caller will still make
    instrument  \* what exports.async / exports.sync made of config

vars == <<config, broken, dynamic, heap, now, calls, trace, callsLeft, instrument>>

Calls == {"c1", "c2"}
DynIds == {"d1", "d2"}

\* config.target[config.method] is one of: the function the target was made
\* with, a function assigned to the member later, a value that is no function,
\* or nothing (the member was deleted or never there).
Members == {"function", "replacement", "number", "absent"}
\* typeof m == "function": calling m does not raise "is not a function".
Invocable(m) == m \in {"function", "replacement"}
\* A construction check that only looks whether the member is there.
MemberPresent(m) == m # "absent"
\* The construction check passes: !(!m || typeof m != "function")
Instrumentable(m) == m # "absent" /\ Invocable(m)
\* The instrumented function exists once construction went through; `bound`
\* is the member the construction check saw.
Unbuilt == [status |-> "unbuilt", bound |-> ""]
Built(m) == [status |-> "built", bound |-> m]
Failed(m) == [status |-> "failed", bound |-> m]

\* config.telemetry && config.telemetry.logs / .metrics
HasLogs == config.telemetry \in {"logs", "both"}
HasMetrics == config.telemetry \in {"metrics", "both"}
\* const name = config.name ? config.name : config.method
DisplayName == IF config.name # "" THEN config.name ELSE config.method

\* The errors collaborators and the runtime raise.
LogSinkError == Prim("LogSinkError")
MetricsSinkError == Prim("MetricsSinkError")
TracerError == Prim("TracerError")
TypeError == Prim("TypeError")
\* config.target[config.method](...) when the member is no function (any more).
NotAFunction == Prim("TypeError: not a function")

\* ----------------------------------------------------------------- events
NoContext == [present |-> FALSE, parentSpan |-> "", provenance |-> Undef, tenantId |-> ""]
\* One call of a collaborator (log, gauge, childSpan, tag, finish, target) or
\* one delivery to the outward caller (return, throw, callback), made by
\* invocation c in its epilog run `run` (0: before any epilog).
Ev(c, run, op) ==
    [call |-> c, run |-> run, op |-> op, level |-> "", kind |-> "", label |-> "",
     unit |-> "", value |-> 0, md |-> Undef, err |-> Undef, data |-> <<>>,
     span |-> "", argv |-> <<>>, ctx |-> NoContext, threw |-> FALSE, callee |-> ""]

\* What a step of an invocation leaves behind: the heap, the trace, and whether
\* it raised (exc) and what (val: the error raised, or the value returned).
Step(h, tr, exc, val) == [h |-> h, tr |-> tr, exc |-> exc, val |-> val]

\* A collaborator call: recorded, and raising `error` when that operation is
\* the broken one.
Collab(s, ev, opname, error) ==
    IF broken = opname
    THEN Step(s.h, Append(s.tr, [ev EXCEPT !.threw = TRUE]), TRUE, error)
    ELSE Step(s.h, Append(s.tr, ev), FALSE, s.val)

\* ----------------------------------------------------------------- prolog
Alloc(h, o) == [h |-> Append(h, o), v |-> Ref(Len(h) + 1)]

\* dynamic.targetMetadata = dynamic.targetMetadata || {module, version}
ResolveTargetMetadata(h, d) ==
    IF Truthy(dynamic[d].targetMetadata)
    THEN [h |-> h, v |-> dynamic[d].targetMetadata]
    ELSE Alloc(h, [module |-> Prim(config.target.name),
                   version |-> config.target.version])

\* The two source literals {target: {method: config.method}} and
\* {target: dynamic.targetMetadata}; returns the heap and the literals.
MergeSources(h, tm) ==
    LET inner == Len(h) + 1
        first == Len(h) + 2
        second == Len(h) + 3
    IN  [h |-> h \o << [method |-> Prim(config.method)],
                       [target |-> Ref(inner)],
                       [target |-> tm] >>,
         first |-> first, second |-> second]
\* extend starts from {} when its first argument is not an object.
MergeBase(c) == IF IsRef(c.v) THEN c ELSE Alloc(c.h, EmptyObj)
MergeInto(base, src) ==
    [h |-> extend(extend(src.h, base, src.first), base, src.second), v |-> Ref(base)]
MergeFrom(base, tm) == MergeInto(base.v.r, MergeSources(base.h, tm))
\* extend(true, clone(dynamic.metadata), {target: {method: config.method}},
\*        {target: dynamic.targetMetadata})
MergeMetadata(h, d, tm) == MergeFrom(MergeBase(clone(h, dynamic[d].metadata)), tm)

\* Object.assign({method: config.method}, dynamic.targetMetadata)
AssignOver(o, src) ==
    [k \in (DOMAIN o) \cup (DOMAIN src) |-> IF k \in DOMAIN src THEN src[k] ELSE o[k]]
SpanMetadata(h, tm) ==
    Alloc(h, AssignOver([method |-> Prim(config.method)],
                        IF IsRef(tm) THEN h[tm.r] ELSE EmptyObj))

\* A context that hands on the caller's parentSpan instead of the child span.
ContextOfCaller(d, traceSpan) ==
    IF config.noContext THEN NoContext
    ELSE [present |-> TRUE,
          parentSpan |-> IF dynamic[d].parentSpan THEN "parent" ELSE "",
          provenance |-> IF IsRef(dynamic[d].metadata)
                         THEN Get(heap[dynamic[d].metadata.r], "provenance")
                         ELSE Undef,
          tenantId |-> dynamic[d].tenantId]
\* The context handed to the target: undefined under config.noContext.
Context(d, traceSpan) ==
    IF config.noContext THEN NoContext
    ELSE [present |-> TRUE, parentSpan |-> traceSpan,
          provenance |-> IF IsRef(dynamic[d].metadata)
                         THEN Get(heap[dynamic[d].metadata.r], "provenance")
                         ELSE Undef,
          tenantId |-> dynamic[d].tenantId]

\* if (logs) logs.log("info", `attempting ${name}`, targetMetadata, {target: {args: argsToLog}})
AttemptLog(c, d, tm, merged) ==
    [tm |-> tm, merged |-> merged.v, traceSpan |-> "",
     s |-> IF HasLogs
           THEN Collab(Step(merged.h, trace, FALSE, Undef),
                       [Ev(c, 0, "log") EXCEPT !.level = "info",
                           !.kind = "attempting", !.label = DisplayName,
                           !.md = merged.v, !.data = dynamic[d].argsToLog],
                       "log", LogSinkError)
           ELSE Step(merged.h, trace, FALSE, Undef)]

\* A traceSpan kept where every invocation shares it: the first call's span.
TracedShared(c, q, s) == [q EXCEPT !.s = s, !.traceSpan = IF s.exc THEN "" ELSE "c1"]
\* if (dynamic.parentSpan) traceSpan = dynamic.parentSpan.childSpan(name, Object.assign(...))
ChildSpanCall(c, s, m) ==
    Collab(Step(m.h, s.tr, FALSE, Undef),
           [Ev(c, 0, "childSpan") EXCEPT !.label = DisplayName, !.md = m.v, !.span = c],
           "childSpan", TracerError)
Traced(c, q, s) == [q EXCEPT !.s = s, !.traceSpan = IF s.exc THEN "" ELSE c]
ChildSpan(c, d, q) ==
    IF q.s.exc \/ ~dynamic[d].parentSpan THEN q
    ELSE Traced(c, q, ChildSpanCall(c, q.s, SpanMetadata(q.s.h, q.tm)))

\* const context = config.noContext ? undefined : {parentSpan: traceSpan,
\*     provenance: dynamic.metadata.provenance, tenantId: dynamic.tenantId}
\* Reading .provenance of an undefined or null metadata raises a TypeError.
MakeContext(d, q) ==
    [tm |-> q.tm, merged |-> q.merged, traceSpan |-> q.traceSpan,
     context |-> Context(d, q.traceSpan),
     s |-> IF ~q.s.exc /\ ~config.noContext
              /\ dynamic[d].metadata \in {Undef, Prim("null")}
           THEN Step(q.s.h, q.s.tr, TRUE, TypeError)
           ELSE q.s]

Merged(c, d, tm) == AttemptLog(c, d, tm.v, MergeMetadata(tm.h, d, tm.v))
\* The instrumented function up to const startTime = markTime(): the default
\* of dynamic.targetMetadata, the merge, the "attempting" log, the child span
\* and the context.  s.exc tells that one of them raised.
Prolog(c, d) ==
    MakeContext(d, ChildSpan(c, d, Merged(c, d, ResolveTargetMetadata(heap, d))))

\* config.target[config.method](...dynamic.args, [completion callback,] context)
TargetCall(c, d, s, withCallback, context) ==
    Step(s.h,
         Append(s.tr, [Ev(c, 0, "target") EXCEPT
            !.argv = dynamic[d].args
                     \o (IF withCallback THEN <<Prim("<completion callback>")>> ELSE <<>>)
                     \o <<IF context.present THEN Prim("<context>") ELSE Undef>>,
            !.ctx = context, !.callee = config.target.member]),
         FALSE, Undef)

\* ----------------------------------------------------------------- epilog
\* metrics.gauge("latency", {unit: "ms", value: elapsedTime, metadata: clone(targetMetadata)})
GaugeCall(c, run, cs, s, t, cl) ==
    Collab(Step(cl.h, s.tr, FALSE, s.val),
           [Ev(c, run, "gauge") EXCEPT !.label = "latency", !.unit = "ms",
               !.value = t - cs.startTime, !.md = cl.v],
           "gauge", MetricsSinkError)
\* A gauge step that calls the metrics sink without looking whether it is there.
GaugeStepUnguarded(c, run, cs, s, t) ==
    IF s.exc THEN s
    ELSE IF ~HasMetrics THEN Step(s.h, s.tr, TRUE, TypeError)
         ELSE GaugeCall(c, run, cs, s, t, clone(s.h, cs.targetMetadata))
GaugeStep(c, run, cs, s, t) ==
    IF s.exc \/ ~HasMetrics THEN s
    ELSE GaugeCall(c, run, cs, s, t, clone(s.h, cs.targetMetadata))

\* logs.log(dynamic.errorLevel ? dynamic.errorLevel : "error", `${name} failed`, ...)
FailureLogStep(c, run, cs, s, error) ==
    IF s.exc \/ ~Truthy(error) \/ ~HasLogs THEN s
    ELSE Collab(s, [Ev(c, run, "log") EXCEPT
                      !.level = IF dynamic[cs.dyn].errorLevel # ""
                                THEN dynamic[cs.dyn].errorLevel ELSE "error",
                      !.kind = "failed", !.label = DisplayName,
                      !.md = cs.targetMetadata, !.err = error,
                      !.data = dynamic[cs.dyn].argsToLog],
                "log", LogSinkError)

\* if (traceSpan) { [if (dynamic.errorTraceTag !== false) traceSpan.tag("error", true);]
\*                  traceSpan.finish(); }
TagStep(c, run, cs, s, error) ==
    IF Truthy(error) /\ dynamic[cs.dyn].errorTraceTag # "false"
    THEN Collab(s, [Ev(c, run, "tag") EXCEPT !.span = cs.traceSpan], "tag", TracerError)
    ELSE s
FinishStep(c, run, cs, s) ==
    IF s.exc THEN s
    ELSE Collab(s, [Ev(c, run, "finish") EXCEPT !.span = cs.traceSpan],
                "finish", TracerError)
SpanStep(c, run, cs, s, error) ==
    IF s.exc \/ cs.traceSpan = "" THEN s
    ELSE FinishStep(c, run, cs, TagStep(c, run, cs, s, error))

\* A propagation that hands the outward callback the first result value only.
PropagateFirst(c, run, s, error, data, callback) ==
    IF s.exc THEN s
    ELSE IF callback
         THEN Step(s.h, Append(s.tr, [Ev(c, run, "callback") EXCEPT
                                         !.err = error, !.data = SubSeq(data, 1, 1)]),
                   FALSE, Undef)
         ELSE IF Truthy(error) THEN Step(s.h, s.tr, TRUE, error)
              ELSE Step(s.h, s.tr, FALSE, data[1])
\* if (callback) return callback(error, ...data); else throw error / return data
Propagate(c, run, s, error, data, callback) ==
    IF s.exc THEN s
    ELSE IF callback
         THEN Step(s.h, Append(s.tr, [Ev(c, run, "callback") EXCEPT
                                         !.err = error, !.data = data]),
                   FALSE, Undef)
         ELSE IF Truthy(error) THEN Step(s.h, s.tr, TRUE, error)
              ELSE Step(s.h, s.tr, FALSE, data[1])

\* An epilog that finalizes the span before it emits the gauge and the log.
epilogSpanFirst(c, run, cs, s, error, data, callback, t) ==
    Propagate(c, run,
        FailureLogStep(c, run, cs,
            GaugeStep(c, run, cs, SpanStep(c, run, cs, s, error), t), error),
        error, data, callback)

\* const epilog = (error, data, startTime[, callback]) => {...}, read at clock t
epilog(c, run, cs, s, error, data, callback, t) ==
    Propagate(c, run,
        SpanStep(c, run, cs,
            FailureLogStep(c, run, cs, GaugeStep(c, run, cs, s, t), error), error),
        error, data, callback)

\* --------------------------------------------------------------- dispatch
\* The outcome of a direct (no outward callback) call as its caller sees it:
\* a returned / resolved value, or a thrown / rejected error.
Deliver(c, run, s) ==
    IF s.exc
    THEN Append(s.tr, [Ev(c, run, "throw") EXCEPT !.err = s.val])
    ELSE Append(s.tr, [Ev(c, run, "return") EXCEPT !.data = <<s.val>>])

\* catch (error) { return epilog(error, undefined, startTime); } for what the
\* epilog of the try block raised.
Caught(c, cs, ok, t) ==
    IF ok.exc
    THEN [s |-> epilog(c, cs.runs + 2, cs, Step(ok.h, ok.tr, FALSE, Undef),
                       ok.val, <<Undef>>, FALSE, t),
          runs |-> cs.runs + 2]
    ELSE [s |-> ok, runs |-> cs.runs + 1]
\* try { const data = [await] target(...); return epilog(undefined, data, startTime); }
\* catch (error) { return epilog(error, undefined, startTime); }
\* `raised` tells that the target threw or rejected with v; otherwise it
\* produced v.
TryCatch(c, cs, s, raised, v, t) ==
    IF raised
    THEN [s |-> epilog(c, cs.runs + 1, cs, Step(s.h, s.tr, FALSE, Undef),
                       v, <<Undef>>, FALSE, t),
          runs |-> cs.runs + 1]
    ELSE Caught(c, cs, epilog(c, cs.runs + 1, cs, Step(s.h, s.tr, FALSE, Undef),
                              Undef, <<v>>, FALSE, t), t)

\* What the target did, recorded before the instrumentation reacts to it:
\* kind is "threw", "returned", "resolved", "rejected" or "calledback".
Completion(c, s, kind, err, data) ==
    Step(s.h, Append(s.tr, [Ev(c, 0, "completion") EXCEPT
                               !.kind = kind, !.err = err, !.data = data]),
         FALSE, Undef)

\* ---------------------------------------------------------------- actions
Idle == [pc |-> "idle", dyn |-> "", cb |-> FALSE, targetMetadata |-> Undef,
         traceSpan |-> "", startTime |-> 0, runs |-> 0, cbs |-> 0]
NextCall == IF calls["c1"].pc = "idle" THEN "c1" ELSE "c2"
CanInvoke(c) ==
    c = NextCall /\ calls[c].pc = "idle" /\ callsLeft > 0 /\ instrument.status = "built"
\* The member config.method names is looked up on config.target at each call.
Callable == Invocable(config.target.member)
Started(d, p, cb) ==
    [pc |-> "done", dyn |-> d, cb |-> cb, targetMetadata |-> p.merged,
     traceSpan |-> p.traceSpan, startTime |-> now, runs |-> 0, cbs |-> 0]

\* What targets throw or reject with, what they pass as the completion
\* callback's first argument, and what they produce.
ThrownValues == {Prim("Error"), Undef}
Results == {Prim("result")}
\* What targets pass to the completion callback: (error), (null, ...results),
\* or an error together with a partial result.
CallbackArgs ==
    { [err |-> Prim("Error"), data |-> <<>>],
      [err |-> Prim("null"), data |-> <<Prim("result"), Prim("more")>>],
      [err |-> Prim("Error"), data |-> <<Prim("partial")>>] }
Delays == {dt \in 0..1 : now + dt <= MaxTime}

\* The monotonic clock advances.
Tick ==
    /\ now < MaxTime
    /\ now' = now + 1
    /\ UNCHANGED <<config, broken, dynamic, heap, calls, trace, callsLeft, instrument>>

\* The instrumented function ends within the call that started it.
Ended(c, cs, h, tr, runs, t) ==
    /\ heap' = h
    /\ trace' = tr
    /\ calls' = [calls EXCEPT ![c] = [cs EXCEPT !.runs = runs]]
    /\ now' = t
\* The prolog raised: the error leaves the instrumented function.
PrologRaised(c, cs, p) ==
    /\ p.s.exc
    /\ Ended(c, cs, p.s.h, Deliver(c, 0, p.s), 0, now)
\* The direct call went through try / catch and its epilog(s).
Direct(c, cs, r, t) == Ended(c, cs, r.s.h, Deliver(c, r.runs, r.s), r.runs, t)
\* The target was called and has not completed: the invocation is suspended.
Suspended(c, cs, tc, pc) ==
    /\ heap' = tc.h
    /\ trace' = tc.tr
    /\ calls' = [calls EXCEPT ![c] = [cs EXCEPT !.pc = pc]]
    /\ now' = now

AsyncBody(c, d, p, cs, tc) ==
    \/ PrologRaised(c, cs, p)
    \/ /\ ~p.s.exc /\ ~Callable       \* the member is no function: the call throws
       /\ Direct(c, cs, TryCatch(c, cs, p.s, TRUE, NotAFunction, now), now)
    \/ /\ ~p.s.exc /\ Callable        \* the target throws synchronously
       /\ \E e \in ThrownValues, dt \in Delays :
            Direct(c, cs, TryCatch(c, cs, Completion(c, tc, "threw", e, <<>>),
                                   TRUE, e, now + dt), now + dt)
    \/ /\ ~p.s.exc /\ Callable        \* the target returns: await suspends
       /\ Suspended(c, cs, tc, "awaiting")
AsyncCall(c, d, p) ==
    /\ dynamic' = [dynamic EXCEPT ![d].targetMetadata = p.tm]
    /\ AsyncBody(c, d, p, Started(d, p, FALSE), TargetCall(c, d, p.s, FALSE, p.context))
\* exports.async: one call of the instrumented function, up to its await.
InvokeAsync(c, d) ==
    /\ config.variant = "async"
    /\ CanInvoke(c)
    /\ callsLeft' = callsLeft - 1
    /\ AsyncCall(c, d, Prolog(c, d))
    /\ UNCHANGED <<config, broken, instrument>>

Settled(c, r) ==
    /\ heap' = r.s.h
    /\ trace' = Deliver(c, r.runs, r.s)
    /\ calls' = [calls EXCEPT ![c].pc = "done", ![c].runs = r.runs]
\* exports.async: the awaited value settles (resolved with v or rejected with v).
AwaitSettles(c, rejected, v) ==
    /\ calls[c].pc = "awaiting"
    /\ Settled(c, TryCatch(c, calls[c],
                           Completion(c, Step(heap, trace, FALSE, Undef),
                                      IF rejected THEN "rejected" ELSE "resolved",
                                      IF rejected THEN v ELSE Undef,
                                      IF rejected THEN <<>> ELSE <<v>>),
                           rejected, v, now))
    /\ UNCHANGED <<config, broken, dynamic, now, callsLeft, instrument>>

SyncBody(c, d, p, cs, tc) ==
    \/ PrologRaised(c, cs, p)
    \/ /\ ~p.s.exc /\ ~Callable       \* the member is no function: the call throws
       /\ Direct(c, cs, TryCatch(c, cs, p.s, TRUE, NotAFunction, now), now)
    \/ /\ ~p.s.exc /\ Callable        \* the target returns a value or throws
       /\ \E raised \in BOOLEAN, dt \in Delays :
          \E v \in IF raised THEN ThrownValues ELSE Results :
            Direct(c, cs, TryCatch(c, cs,
                                   Completion(c, tc, IF raised THEN "threw" ELSE "returned",
                                              IF raised THEN v ELSE Undef,
                                              IF raised THEN <<>> ELSE <<v>>),
                                   raised, v, now + dt), now + dt)
SyncCall(c, d, p) ==
    /\ dynamic' = [dynamic EXCEPT ![d].targetMetadata = p.tm]
    /\ SyncBody(c, d, p, Started(d, p, FALSE), TargetCall(c, d, p.s, FALSE, p.context))
\* exports.sync called without a function as callback: direct return.
InvokeSync(c, d) ==
    /\ config.variant = "sync"
    /\ CanInvoke(c)
    /\ callsLeft' = callsLeft - 1
    /\ SyncCall(c, d, Prolog(c, d))
    /\ UNCHANGED <<config, broken, instrument>>

\* The completion callback ran the epilog while the target was still running:
\* what the epilog raises passes through the target to the outward caller.
CalledBack(c, cs, r, t) ==
    /\ heap' = r.h
    /\ trace' = IF r.exc THEN Deliver(c, 1, r) ELSE r.tr
    /\ calls' = [calls EXCEPT ![c] =
          [cs EXCEPT !.pc = IF r.exc THEN "done" ELSE "waiting", !.runs = 1, !.cbs = 1]]
    /\ now' = t
SyncCallbackBody(c, d, p, cs, tc) ==
    \/ PrologRaised(c, cs, p)
    \/ /\ ~p.s.exc /\ ~Callable       \* the member is no function: the call throws
       /\ Ended(c, cs, p.s.h, Deliver(c, 0, Step(p.s.h, p.s.tr, TRUE, NotAFunction)), 0, now)
    \/ /\ ~p.s.exc /\ Callable        \* the target throws synchronously
       /\ \E e \in ThrownValues :
            Ended(c, cs, tc.h,
                  Deliver(c, 0, Step(tc.h, Completion(c, tc, "threw", e, <<>>).tr, TRUE, e)),
                  0, now)
    \/ /\ ~p.s.exc /\ Callable        \* the target returns, to call back later
       /\ Suspended(c, cs, tc, "waiting")
    \/ /\ ~p.s.exc /\ Callable        \* the target calls back before it returns
       /\ \E a \in CallbackArgs, dt \in Delays :
            CalledBack(c, cs, epilog(c, 1, cs, Completion(c, tc, "calledback", a.err, a.data),
                                     a.err, a.data, TRUE, now + dt), now + dt)
SyncCallbackCall(c, d, p) ==
    /\ dynamic' = [dynamic EXCEPT ![d].targetMetadata = p.tm]
    /\ SyncCallbackBody(c, d, p, Started(d, p, TRUE), TargetCall(c, d, p.s, TRUE, p.context))
\* exports.sync called with an outward callback: the target gets a completion
\* callback (error, ...data) => epilog(error, data, startTime, callback); the
\* call is not inside any try.
InvokeSyncCallback(c, d) ==
    /\ config.variant = "sync"
    /\ CanInvoke(c)
    /\ callsLeft' = callsLeft - 1
    /\ SyncCallbackCall(c, d, Prolog(c, d))
    /\ UNCHANGED <<config, broken, instrument>>

\* The invocations of completion callbacks so far.
CallbacksMade == calls["c1"].cbs + calls["c2"].cbs
LateCallback(c, r) ==
    /\ heap' = r.h
    /\ trace' = IF r.exc
                THEN Append(r.tr, [Ev(c, calls[c].runs + 1, "uncaught") EXCEPT !.err = r.val])
                ELSE r.tr
    /\ calls' = [calls EXCEPT ![c].runs = @ + 1, ![c].cbs = @ + 1]
\* The target invokes the completion callback after the instrumented function
\* returned.  What the epilog raises goes to the target's caller of the
\* completion callback, not to the outward caller.
CompletionCallback(c, e, data) ==
    /\ calls[c].pc = "waiting"
    /\ CallbacksMade < MaxCallbacks
    /\ LateCallback(c, epilog(c, calls[c].runs + 1, calls[c],
                              Completion(c, Step(heap, trace, FALSE, Undef),
                                         "calledback", e, data),
                              e, data, TRUE, now))
    /\ UNCHANGED <<config, broken, dynamic, now, callsLeft, instrument>>

Next ==
    \/ Tick
    \/ \E c \in Calls, d \in DOMAIN dynamic : InvokeAsync(c, d)
    \/ \E c \in Calls, rejected \in BOOLEAN :
         \E v \in IF rejected THEN ThrownValues ELSE Results : AwaitSettles(c, rejected, v)
    \/ \E c \in Calls, d \in DOMAIN dynamic : InvokeSync(c, d)
    \/ \E c \in Calls, d \in DOMAIN dynamic : InvokeSyncCallback(c, d)
    \/ \E c \in Calls, a \in CallbackArgs : CompletionCallback(c, a.err, a.data)

\* ------------------------------------------------------------------- init
\* The caller's parent metadata: absent, or an object with an optional nested
\* `target` object.
MetadataShapes ==
    { [defined |-> FALSE, top |-> EmptyObj, nested |-> FALSE, target |-> EmptyObj],
      [defined |-> TRUE, top |-> [a |-> Prim("1"), provenance |-> Prim("origin")],
       nested |-> TRUE, target |-> [x |-> Prim("1")]],
      [defined |-> TRUE, top |-> [a |-> Prim("1")],
       nested |-> TRUE, target |-> [method |-> Prim("parentMethod"), y |-> Prim("9"),
                                    version |-> Prim("0.9")]],
      [defined |-> TRUE, top |-> [a |-> Prim("1"), target |-> Prim("plain")],
       nested |-> FALSE, target |-> EmptyObj],
      [defined |-> TRUE, top |-> [provenance |-> Prim("origin")],
       nested |-> FALSE, target |-> EmptyObj] }
\* The per-call targetMetadata override: absent, or an object.
TargetMetadataShapes ==
    { [defined |-> FALSE, obj |-> EmptyObj],
      [defined |-> TRUE, obj |-> [y |-> Prim("2")]],
      [defined |-> TRUE, obj |-> [method |-> Prim("override"), x |-> Prim("7")]] }

BuildMetadata(h, m) ==
    IF ~m.defined THEN [h |-> h, v |-> Undef]
    ELSE IF m.nested
         THEN [h |-> h \o <<m.target, Put(m.top, "target", Ref(Len(h) + 1))>>,
               v |-> Ref(Len(h) + 2)]
         ELSE Alloc(h, m.top)
BuildTargetMetadata(h, t) ==
    IF t.defined THEN Alloc(h, t.obj) ELSE [h |-> h, v |-> Undef]

\* The configurations exports.async / exports.sync accept (config.method names
\* a function of config.target).
Configs(names, noContexts, telemetries, versions) ==
    [variant : {"async", "sync"}, method : {"doIt"}, name : names,
     noContext : noContexts, telemetry : telemetries,
     target : [name : {"Target"}, version : versions, member : {"function"}]]

InitState(cfg, br, bm, bt, span, tag, level, inst, left) ==
        /\ config = cfg
        /\ broken = br
        /\ heap = bt.h
        /\ instrument = inst
        /\ dynamic = [d \in {"d1"} |->
              [args |-> <<Prim("arg1")>>, argsToLog |-> <<Prim("redacted")>>,
               errorLevel |-> level, errorTraceTag |-> tag, metadata |-> bm.v,
               parentSpan |-> span, targetMetadata |-> bt.v, tenantId |-> "tenant"]]
        /\ now = 0
        /\ calls = [c \in Calls |-> Idle]
        /\ trace = <<>>
        /\ callsLeft = left
\* The state after a successful construction, before the one call made.
InitObjects(cfg, br, bm, bt, span, tag, level) ==
    InitState(cfg, br, bm, bt, span, tag, level, Built(cfg.target.member), 1)
InitMeta(cfg, br, bm, t, span, tag, level) ==
    InitObjects(cfg, br, bm, BuildTargetMetadata(bm.h, t), span, tag, level)
InitWorld(cfg, br, m, t, span, tag, level) ==
    InitMeta(cfg, br, BuildMetadata(<<>>, m), t, span, tag, level)

Brokens == {"log", "gauge", "childSpan", "tag", "finish"}
SpecExample == CHOOSE m \in MetadataShapes : m.nested /\ "x" \in DOMAIN m.target
NoMetadata == CHOOSE m \in MetadataShapes : ~m.defined
NoOverride == CHOOSE t \in TargetMetadataShapes : ~t.defined

\* Control-flow worlds: working collaborators, every sink combination and
\* every per-call flag, over one metadata (or none).
InitFlow ==
    \E cfg \in Configs({""}, BOOLEAN, {"absent", "logs", "metrics", "both"}, {Prim("1.0")}),
       m \in {SpecExample, NoMetadata},
       span \in BOOLEAN, tag \in {"unset", "false"}, level \in {"", "warn"} :
        InitWorld(cfg, "none", m, NoOverride, span, tag, level)

\* Worlds in which one collaborator operation raises whenever it is called.
InitBroken ==
    \E cfg \in Configs({""}, {FALSE}, {"both"}, {Prim("1.0")}),
       br \in Brokens, tag \in {"unset", "false"} :
        InitWorld(cfg, br, SpecExample, NoOverride, TRUE, tag, "")

\* Metadata worlds: every parent metadata and override shape, with working
\* collaborators.
InitMetadata ==
    \E cfg \in Configs({"", "label"}, {TRUE}, {"both"}, {Prim("1.0"), Undef}),
       m \in MetadataShapes, t \in TargetMetadataShapes :
        InitWorld(cfg, "none", m, t, TRUE, "unset", "")

Init == InitFlow \/ InitBroken \/ InitMetadata

Spec == Init /\ [][Next]_vars

\* -------------------------------------------------------------- lifecycle
\* The error exports.async / exports.sync throw for a member that is no function.
ConstructionError == Prim("Error: is not a function and cannot be instrumented")
\* exports.async(config) / exports.sync(config) on target t: the check of
\* config.target[config.method], then the instrumented function is returned.
Constructed(t, left) ==
    /\ config' = [config EXCEPT !.target = t]
    /\ callsLeft' = left
    /\ instrument' = IF Instrumentable(t.member) THEN Built(t.member) ELSE Failed(t.member)
    /\ trace' = IF Instrumentable(t.member) THEN trace
                ELSE Append(trace, [Ev("", 0, "throw") EXCEPT !.err = ConstructionError])
    /\ UNCHANGED <<broken, dynamic, heap, now, calls>>
\* The caller constructs the Instrument from config.
Construct ==
    /\ instrument.status = "unbuilt"
    /\ Constructed(config.target, callsLeft)
\* Another target an Instrument may be built on.
OtherTargets == {[name |-> "Other", version |-> Prim("2.0"), member |-> "function"]}
\* The caller, its call over, constructs an Instrument on another target with
\* the same method, sinks and flags, to make one call through that one.
ConstructOther(t) ==
    /\ instrument.status = "built"
    /\ callsLeft = 0
    /\ \A c \in Calls : calls[c].pc \in {"idle", "done"}
    /\ config.target \notin OtherTargets
    /\ Constructed(t, 1)
\* target[method] = m, or delete target[method], after construction.
Reassign(m) ==
    /\ instrument.status = "built"
    /\ config.target.member = "function"
    /\ callsLeft > 0
    /\ config' = [config EXCEPT !.target.member = m]
    /\ UNCHANGED <<broken, dynamic, heap, now, calls, trace, callsLeft, instrument>>

NextLifecycle ==
    \/ Next
    \/ Construct
    \/ \E t \in OtherTargets : ConstructOther(t)
    \/ \E m \in Members \ {"function"} : Reassign(m)

\* A config as the caller hands it to exports.async / exports.sync: the member
\* may be a function, something else, or missing.
WithMember(cfg, m) == [cfg EXCEPT !.target.member = m]
InitUnbuilt(cfg, m, span) ==
    InitState(cfg, "none", BuildMetadata(<<>>, m), [h |-> BuildMetadata(<<>>, m).h, v |-> Undef],
              span, "unset", "", Unbuilt, 1)
\* Before construction: both variants, every kind of member, the caller about
\* to make a call with a per-call context that carries no targetMetadata.
InitLifecycle ==
    \E cfg \in Configs({""}, {FALSE}, {"both"}, {Prim("1.0")}),
       m \in {"function", "number", "absent"} :
        InitUnbuilt(WithMember(cfg, m), SpecExample, TRUE)

SpecLifecycle == InitLifecycle /\ [][NextLifecycle]_vars

\* ---------------------------------------------------------------- overlap
\* A per-call context of a traced call without targetMetadata.
PerCall(md, arg, level, tenant) ==
    [args |-> <<Prim(arg)>>, argsToLog |-> <<Prim("redacted " \o arg)>>,
     errorLevel |-> level, errorTraceTag |-> "unset", metadata |-> md,
     parentSpan |-> TRUE, targetMetadata |-> Undef, tenantId |-> tenant]
OtherExample == CHOOSE m \in MetadataShapes : m.nested /\ "y" \in DOMAIN m.target
InitTwo(cfg, b1, b2) ==
    /\ config = cfg
    /\ broken = "none"
    /\ heap = b2.h
    /\ instrument = Built(cfg.target.member)
    /\ dynamic = [d \in DynIds |->
          IF d = "d1" THEN PerCall(b1.v, "arg1", "", "tenant")
                      ELSE PerCall(b2.v, "arg2", "warn", "tenant2")]
    /\ now = MaxTime - 1
    /\ calls = [c \in Calls |-> Idle]
    /\ trace = <<>>
    /\ callsLeft = 2
InitSecond(cfg, b1) == InitTwo(cfg, b1, BuildMetadata(b1.h, OtherExample))
\* One Instrument, working collaborators, and a caller about to make two
\* calls, each with a per-call context of its own or both with the same.
InitOverlap ==
    \E cfg \in Configs({""}, {FALSE}, {"both"}, {Prim("1.0")}) :
        InitSecond(cfg, BuildMetadata(<<>>, SpecExample))

SpecOverlap == InitOverlap /\ [][Next]_vars

\* ================================================================= claims
\* Reading the trace.
At(c, ops) == {i \in DOMAIN trace : trace[i].call = c /\ trace[i].op \in ops}
Count(c, ops) == Cardinality(At(c, ops))
Logs(c, kind) == {i \in At(c, {"log"}) : trace[i].kind = kind}
\* The deliveries to the outward caller: a returned / resolved value, a thrown
\* / rejected error, an invocation of the outward callback.
OutcomeOps == {"return", "throw", "callback"}
HasEnded(c) == At(c, OutcomeOps) # {}
TargetCalled(c) == At(c, {"target"}) # {}
\* The target produced an error: it threw, rejected, or passed one to the
\* completion callback.
TargetErrors(c) ==
    {i \in At(c, {"completion"}) :
        \/ trace[i].kind \in {"threw", "rejected"}
        \/ trace[i].kind = "calledback" /\ Truthy(trace[i].err)}
Invoked == {c \in Calls : calls[c].pc # "idle"}

\* C1: with a metrics sink and working collaborators, an invocation whose
\* target was called never has two latency gauges, has exactly one once it
\* has ended towards its caller, and each gauge is in "ms" and non-negative.
C1_ExactlyOneGauge ==
    (HasMetrics /\ broken = "none") =>
        \A c \in Invoked :
            /\ Count(c, {"gauge"}) <= 1
            /\ (TargetCalled(c) /\ HasEnded(c)) => Count(c, {"gauge"}) = 1
            /\ \A i \in At(c, {"gauge"}) :
                 trace[i].label = "latency" /\ trace[i].unit = "ms" /\ trace[i].value >= 0

\* C2: with a parentSpan, childSpan is called exactly once, and finish and
\* tag are each called at most once on the created span, whatever the target
\* and the collaborators do.
C2_NoSpanMethodTwice ==
    \A c \in Invoked :
        /\ dynamic[calls[c].dyn].parentSpan =>
             (HasLogs /\ broken = "log") \/ Count(c, {"childSpan"}) = 1
        /\ Count(c, {"childSpan"}) <= 1
        /\ Count(c, {"finish"}) <= 1
        /\ Count(c, {"tag"}) <= 1

\* C3: once an invocation has ended towards its caller, the child span it
\* created has been finished.
C3_SpanFinishedAtEnd ==
    broken = "none" =>
        \A c \in Invoked :
            (HasEnded(c) /\ calls[c].traceSpan # "") => Count(c, {"finish"}) >= 1

\* C4: with a logs sink, a failing invocation that has ended has exactly one
\* "attempting" info log and exactly one failure log, in that order, the
\* failure log at dynamic.errorLevel when set and at "error" otherwise; an
\* invocation whose target produced no error has no failure log.
C4_AttemptThenOneFailureLog ==
    (HasLogs /\ broken = "none") =>
        \A c \in Invoked :
            /\ (TargetErrors(c) # {} /\ HasEnded(c)
                  /\ \A i \in TargetErrors(c) : Truthy(trace[i].err)) =>
                 /\ Cardinality(Logs(c, "attempting")) = 1
                 /\ Cardinality(Logs(c, "failed")) = 1
                 /\ \A i \in Logs(c, "attempting") : \A j \in Logs(c, "failed") :
                      /\ i < j
                      /\ trace[i].level = "info"
                      /\ trace[j].level = IF dynamic[calls[c].dyn].errorLevel # ""
                                          THEN dynamic[calls[c].dyn].errorLevel ELSE "error"
            /\ TargetErrors(c) = {} => Logs(c, "failed") = {}

\* C5: the events of one invocation are totally ordered: attempting log, child
\* span, target call, and then, in each run of the epilog, latency gauge,
\* failure log, span tag, span finish, delivery to the outward caller.
EpilogOps == {"gauge", "log", "tag", "finish", "return", "throw", "callback", "uncaught"}
OrderedOps == EpilogOps \cup {"childSpan", "target"}
Position(e) ==
    e.run * 10 +
    (CASE e.op = "log" /\ e.kind = "attempting" -> 1
       [] e.op = "childSpan" -> 2
       [] e.op = "target" -> 3
       [] e.op = "gauge" -> 4
       [] e.op = "log" /\ e.kind = "failed" -> 5
       [] e.op = "tag" -> 6
       [] e.op = "finish" -> 7
       [] OTHER -> 8)
C5_EventsTotallyOrdered ==
    \A c \in Invoked :
        \A i, j \in At(c, OrderedOps) :
            i < j =>
                /\ Position(trace[i]) < Position(trace[j])
                /\ trace[j].op \in {"gauge", "tag", "finish"} => trace[j].run >= 1
                /\ (trace[j].op = "log" /\ trace[j].kind = "failed") => trace[j].run >= 1
                /\ (trace[i].op = "log" /\ trace[i].kind = "attempting") => trace[i].run = 0
\* A failing traced invocation with both sinks went through every step.
C5_Witness ==
    \E c \in Invoked :
        /\ broken = "none"
        /\ Logs(c, "attempting") # {} /\ Logs(c, "failed") # {}
        /\ \A op \in {"childSpan", "target", "gauge", "tag", "finish"} : At(c, {op}) # {}
        /\ HasEnded(c)

\* C6: every error the target produced reaches the outward caller as the same
\* value through the caller's convention: thrown / rejected for a direct call,
\* first argument of the outward callback in callback-relay mode.
C6_TargetErrorPropagated ==
    broken = "none" =>
        \A c \in Invoked :
            \A i \in TargetErrors(c) :
                \E j \in At(c, {IF calls[c].cb THEN "callback" ELSE "throw"}) :
                    j > i /\ trace[j].err = trace[i].err

\* C7: exactly one terminal outcome reaches the outward caller: never two
\* deliveries, exactly one once the instrumented call is over, and in
\* callback-relay mode no raise beside the outward callback.
C7_ExactlyOneOutcome ==
    broken = "none" =>
        \A c \in Invoked :
            (TargetCalled(c) /\ \A i \in TargetErrors(c) : Truthy(trace[i].err)) =>
                /\ Count(c, OutcomeOps) <= 1
                /\ calls[c].pc = "done" => Count(c, OutcomeOps) = 1
                /\ calls[c].cb => Count(c, {"throw"}) = 0

\* C8: when a tracing call (childSpan, tag, finish) raises, the target is still
\* called, the outward caller gets the target's own outcome and not the
\* tracer's error, and no gauge, failure log or finish is repeated.
C8_TracerFailureSuppressed ==
    broken \in {"childSpan", "tag", "finish"} =>
        \A c \in Invoked :
          (config.noContext \/ IsRef(dynamic[calls[c].dyn].metadata)) =>
            /\ HasEnded(c) => TargetCalled(c)
            /\ \A i \in At(c, OutcomeOps \cup {"uncaught"}) : trace[i].err # TracerError
            /\ Count(c, {"gauge"}) <= Count(c, {"completion"})
            /\ Cardinality(Logs(c, "failed")) <= Count(c, {"completion"})
            /\ Count(c, {"finish"}) <= Count(c, {"completion"})

\* Layering b over a: b's defined fields win, a's other fields survive.
Layer(a, b) ==
    [k \in (DOMAIN a) \cup {x \in DOMAIN b : b[x] # Undef} |->
        IF k \in DOMAIN b /\ b[k] # Undef THEN b[k] ELSE a[k]]
ObjectAt(v) == IF IsRef(v) THEN heap[v.r] ELSE EmptyObj
\* The merged record of invocation c is the caller's metadata with its
\* `target` replaced by the parent's target fields, then {method: m}, then the
\* fields of the override in effect (dynamic.targetMetadata after the default).
MergedAs(c, m) ==
    LET parent == ObjectAt(dynamic[calls[c].dyn].metadata)
        merged == ObjectAt(calls[c].targetMetadata)
    IN  /\ IsRef(calls[c].targetMetadata)
        /\ DOMAIN merged = (DOMAIN parent) \cup {"target"}
        /\ \A k \in (DOMAIN parent) \ {"target"} : merged[k] = parent[k]
        /\ IsRef(merged["target"])
        /\ heap[merged["target"].r] =
             Layer(Layer(ObjectAt(Get(parent, "target")), [method |-> Prim(m)]),
                   ObjectAt(dynamic[calls[c].dyn].targetMetadata))
\* Both logs carry the merged record itself; the gauge carries an equal copy.
TelemetryCarriesMerged(c) ==
    /\ \A i \in At(c, {"log"}) : trace[i].md = calls[c].targetMetadata
    /\ \A i \in At(c, {"gauge"}) :
         LET copy == ObjectAt(trace[i].md)
             merged == ObjectAt(calls[c].targetMetadata)
         IN  /\ DOMAIN copy = DOMAIN merged
             /\ \A k \in (DOMAIN merged) \ {"target"} : copy[k] = merged[k]
             /\ ObjectAt(copy["target"]) = ObjectAt(merged["target"])

CallerMetadata == UNION {Reach(heap, dynamic[d].metadata) : d \in DOMAIN dynamic}
NoSinkAliasesMetadata ==
    \A i \in DOMAIN trace :
        trace[i].op \in {"log", "gauge"} => Reach(heap, trace[i].md) \cap CallerMetadata = {}
MetadataKept ==
    /\ \A d \in DOMAIN dynamic : dynamic'[d].metadata = dynamic[d].metadata
    /\ \A o \in CallerMetadata : o \in DOMAIN heap' /\ heap'[o] = heap[o]
C10_CallerMetadataUntouched == []NoSinkAliasesMetadata /\ [][MetadataKept]_vars
\* Invocations over a nested caller metadata that failed and that succeeded,
\* logged and gauged.
C10_Witness ==
    \E c \in Invoked :
        /\ broken = "none"
        /\ Cardinality(CallerMetadata) = 2
        /\ At(c, {"gauge"}) # {} /\ Logs(c, "failed") # {}
        /\ HasEnded(c)

\* C11: under config.noContext the target receives exactly the forwarded args
\* (and the completion callback in callback-relay mode) and nothing after them;
\* otherwise it receives one more, trailing argument, the context with
\* parentSpan, provenance and tenantId.
Forwarded(c) == Len(dynamic[calls[c].dyn].args) + (IF calls[c].cb THEN 1 ELSE 0)
C11_ArgumentsAsForwarded ==
    \A c \in Invoked : \A i \in At(c, {"target"}) :
        IF config.noContext
        THEN Len(trace[i].argv) = Forwarded(c) /\ ~trace[i].ctx.present
        ELSE /\ Len(trace[i].argv) = Forwarded(c) + 1
             /\ trace[i].argv[Forwarded(c) + 1] = Prim("<context>")
             /\ trace[i].ctx.present

\* C12: a construction on a member that is no function (missing, or a value
\* of another type) fails with the construction error and nothing else
\* happens: no instrumented function to invoke, no log, gauge, span or target
\* call; a construction on a function succeeds.
C12_ConstructionFailsFast ==
    /\ instrument.status # "unbuilt" =>
          (instrument.status = "failed" <=> ~Invocable(instrument.bound))
    /\ instrument.status = "failed" =>
          /\ Invoked = {}
          /\ Len(trace) = 1
          /\ trace[1].op = "throw" /\ trace[1].call = "" /\ trace[1].err = ConstructionError
\* A construction on a member that is there and is no function has failed,
\* and time has passed since.
C12_Witness ==
    instrument = Failed("number") /\ now > 0 /\ Len(trace) = 1

\* C13: an ended invocation with a span whose target produced an error has
\* its span tagged exactly when dynamic.errorTraceTag is not false, every tag
\* before every finish, and its failure log (with a logs sink) either way; one
\* whose target produced no error has its span finished and never tagged.
C13_TagIffErrorTraceTag ==
    broken = "none" =>
        \A c \in Invoked :
            (calls[c].traceSpan # "" /\ HasEnded(c) /\ At(c, {"completion"}) # {}) =>
                IF TargetErrors(c) # {}
                THEN /\ At(c, {"tag"}) # {} <=> dynamic[calls[c].dyn].errorTraceTag # "false"
                     /\ At(c, {"finish"}) # {}
                     /\ \A i \in At(c, {"tag"}) : \A j \in At(c, {"finish"}) : i < j
                     /\ HasLogs => Logs(c, "failed") # {}
                ELSE At(c, {"finish"}) # {} /\ At(c, {"tag"}) = {}

\* C14: in callback-relay mode every invocation of the outward callback
\* carries the error and the result values of the target's latest invocation
\* of its completion callback, in the same order and number; with working
\* collaborators every such invocation is relayed; and the target receives the
\* completion callback right after the forwarded args, before the context.
Relayed(c, j) ==
    \E i \in At(c, {"completion"}) :
        /\ i < j
        /\ \A k \in At(c, {"completion"}) : k < j => k <= i
        /\ trace[i].kind = "calledback"
        /\ trace[j].err = trace[i].err
        /\ trace[j].data = trace[i].data
C14_CallbackRelaysCompletion ==
    \A c \in Invoked :
        calls[c].cb =>
            /\ \A j \in At(c, {"callback"}) : Relayed(c, j)
            /\ broken = "none" =>
                  \A i \in At(c, {"completion"}) :
                      trace[i].kind = "calledback" =>
                          \E j \in At(c, {"callback"}) :
                              /\ j > i
                              /\ \A k \in At(c, {"completion"}) : k <= i \/ k > j
            /\ \A i \in At(c, {"target"}) :
                  LET n == Len(dynamic[calls[c].dyn].args)
                  IN  /\ SubSeq(trace[i].argv, 1, n) = dynamic[calls[c].dyn].args
                      /\ trace[i].argv[n + 1] = Prim("<completion callback>")
                      /\ Len(trace[i].argv) = n + 2
                      /\ trace[i].ctx.present => trace[i].argv[n + 2] = Prim("<context>")
\* A target handed a context called back with two result values, and again
\* with an error, and both reached the outward callback.
C14_Witness ==
    \E c \in Invoked :
        /\ calls[c].cb /\ ~config.noContext
        /\ \E j \in At(c, {"callback"}) : Len(trace[j].data) = 2 /\ ~Truthy(trace[j].err)
        /\ \E j \in At(c, {"callback"}) : Truthy(trace[j].err) /\ Len(trace[j].data) = 1

\* C15: in callback-relay mode an error the target throws synchronously goes
\* through the epilog (gauge, failure log, span finish) and reaches the outward
\* callback as its first argument; nothing is thrown to the caller.
C15_SyncThrowReachesCallback ==
    broken = "none" =>
        \A c \in Invoked :
            calls[c].cb =>
                \A i \in At(c, {"completion"}) :
                    trace[i].kind = "threw" =>
                        /\ \E j \in At(c, {"callback"}) : j > i /\ trace[j].err = trace[i].err
                        /\ At(c, {"throw"}) = {}
                        /\ HasMetrics => At(c, {"gauge"}) # {}
                        /\ (HasLogs /\ Truthy(trace[i].err)) => Logs(c, "failed") # {}
                        /\ calls[c].traceSpan # "" => At(c, {"finish"}) # {}

\* What the instrumented call delivers for what the target did (completion
\* event e): delivery j answers e in a call with (cb) or without an outward
\* callback.
Answers(e, j, cb) ==
    IF e.kind = "calledback"
    THEN j.op = "callback" /\ j.err = e.err /\ j.data = e.data
    ELSE IF e.kind \in {"threw", "rejected"}
         THEN IF cb \/ Truthy(e.err)
              THEN j.op = "throw" /\ j.err = e.err
              ELSE j.op = "return" /\ j.data = <<Undef>>
         ELSE j.op = "return" /\ j.data = e.data
\* Every delivery of invocation c answers c's own latest completion.
OwnOutcome(c) ==
    \A j \in At(c, OutcomeOps) :
        \E i \in At(c, {"completion"}) :
            /\ i < j
            /\ \A k \in At(c, {"completion"}) : k < j => k <= i
            /\ Answers(trace[i], trace[j], calls[c].cb)
\* Every emission of invocation c is made of c's own per-call context, merged
\* metadata and span.
OwnTelemetry(c) ==
    /\ MergedAs(c, config.method) /\ TelemetryCarriesMerged(c)
    /\ \A i \in At(c, {"log"}) : trace[i].data = dynamic[calls[c].dyn].argsToLog
    /\ \A i \in Logs(c, "failed") :
          trace[i].level = IF dynamic[calls[c].dyn].errorLevel # ""
                           THEN dynamic[calls[c].dyn].errorLevel ELSE "error"
    /\ \A i \in At(c, {"childSpan", "tag", "finish"}) : trace[i].span = c
    /\ \A i \in At(c, {"target"}) :
          /\ trace[i].argv[1] = dynamic[calls[c].dyn].args[1]
          /\ trace[i].ctx.parentSpan = c
          /\ trace[i].ctx.tenantId = dynamic[calls[c].dyn].tenantId
Independent == \A c \in Invoked : OwnTelemetry(c) /\ OwnOutcome(c)
\* A step that emits for invocation c emits for c only, measures latency from
\* c's own start mark, and leaves the other invocation's locals alone.
Emitted == (Len(trace) + 1)..Len(trace')
OwnStep ==
    /\ SubSeq(trace', 1, Len(trace)) = trace
    /\ \A c \in Calls :
          (\E i \in Emitted : trace'[i].call = c) =>
              /\ \A i \in Emitted : trace'[i].call = c
              /\ \A o \in Calls \ {c} : calls'[o] = calls[o]
              /\ \A i \in Emitted :
                    trace'[i].op = "gauge" => trace'[i].value = now' - calls'[c].startTime
              /\ calls[c].pc # "idle" =>
                    /\ calls'[c].startTime = calls[c].startTime
                    /\ calls'[c].targetMetadata = calls[c].targetMetadata
                    /\ calls'[c].traceSpan = calls[c].traceSpan
                    /\ calls'[c].dyn = calls[c].dyn
\* C16: overlapping invocations of one Instrument are independent: each emits
\* gauge and logs with its own merged metadata and start mark, tags and
\* finishes its own span only, and delivers its own outcome; a step of one
\* invocation changes nothing of the other.
C16_InvocationsIndependent == []Independent /\ [][OwnStep]_vars
\* Two invocations with different per-call contexts and start marks overlapped:
\* the second was started before the first completed and completed first.
C16_Witness ==
    /\ Invoked = Calls
    /\ calls["c1"].dyn # calls["c2"].dyn
    /\ calls["c1"].startTime # calls["c2"].startTime
    /\ \E i \in At("c2", {"target"}) : \E j \in At("c2", OutcomeOps) :
          \E k \in At("c1", OutcomeOps) : i < j /\ j < k
                /\ \A g \in At("c1", {"gauge"}) : i < g
    /\ \A c \in Calls : At(c, {"gauge"}) # {} /\ At(c, {"finish"}) # {}
    /\ Logs("c1", "failed") # {}

\* C17: every invocation calls the function the construction check saw, and
\* none ends with the error of calling a member that is no function, whatever
\* is assigned to target[method] after construction.
C17_MethodBoundOnce ==
    \A c \in Invoked :
        /\ \A i \in At(c, {"target"}) : trace[i].callee = instrument.bound
        /\ \A i \in At(c, OutcomeOps) : trace[i].err # NotAFunction

\* The target identity an object carries in its module and version fields.
IdentityIn(h, v) ==
    [module |-> Get(h[v.r], "module"), version |-> Get(h[v.r], "version")]
OwnIdentity == [module |-> Prim(config.target.name), version |-> config.target.version]
\* The call that starts in this step reports the identity of the target of
\* the Instrument it is made through, in its merged metadata and to childSpan.
StartsWithOwnIdentity(c) ==
    (calls[c].pc = "idle" /\ calls'[c].pc # "idle") =>
        /\ IdentityIn(heap', Get(heap'[calls'[c].targetMetadata.r], "target")) = OwnIdentity
        /\ \A i \in Emitted :
              trace'[i].op = "childSpan" => IdentityIn(heap', trace'[i].md) = OwnIdentity
\* C18: a call whose caller supplied no targetMetadata (no caller of these
\* worlds does) reports the module and version of its own Instrument's target,
\* also when its per-call context object was used in an earlier call of an
\* Instrument on another target.
C18_ReportsOwnTargetIdentity == [][\A c \in Calls : StartsWithOwnIdentity(c)]_vars

\* C19: the context the target receives carries as parentSpan the child span
\* created for this invocation, or none when the caller supplied no
\* parentSpan (and then no span was created), as provenance the caller's
\* metadata.provenance, and as tenantId the call's tenantId.
C19_ContextCarriesChildSpan ==
    \A c \in Invoked :
        \A i \in At(c, {"target"}) :
            ~config.noContext =>
                /\ trace[i].ctx.present
                /\ IF dynamic[calls[c].dyn].parentSpan
                   THEN \E j \in At(c, {"childSpan"}) :
                            j < i /\ trace[i].ctx.parentSpan = trace[j].span
                   ELSE trace[i].ctx.parentSpan = "" /\ At(c, {"childSpan"}) = {}
                /\ trace[i].ctx.provenance
                     = Get(ObjectAt(dynamic[calls[c].dyn].metadata), "provenance")
                /\ trace[i].ctx.tenantId = dynamic[calls[c].dyn].tenantId
\* A traced call whose target received the child span and the provenance.
C19_Witness ==
    \E c \in Invoked : \E i \in At(c, {"target"}) :
        /\ trace[i].ctx.present
        /\ trace[i].ctx.parentSpan = c
        /\ trace[i].ctx.provenance = Prim("origin")
        /\ trace[i].ctx.tenantId = "tenant"
        /\ HasEnded(c)

\* What the target is called with, told from the per-call context and
\* config.noContext alone.
ExpectedArgv(c) ==
    dynamic[calls[c].dyn].args
        \o (IF calls[c].cb THEN <<Prim("<completion callback>")>> ELSE <<>>)
        \o <<IF config.noContext THEN Undef ELSE Prim("<context>")>>
ExpectedContext(c) ==
    IF config.noContext THEN NoContext
    ELSE [present |-> TRUE,
          parentSpan |-> IF dynamic[calls[c].dyn].parentSpan THEN c ELSE "",
          provenance |-> Get(ObjectAt(dynamic[calls[c].dyn].metadata), "provenance"),
          tenantId |-> dynamic[calls[c].dyn].tenantId]
\* A delivery with no completion before it: the context could not be made.
NoContextToMake(c, j) ==
    /\ ~config.noContext /\ ~IsRef(dynamic[calls[c].dyn].metadata)
    /\ trace[j].op = "throw" /\ trace[j].err = TypeError
    /\ At(c, {"target"}) = {}
\* C20: with working collaborators, what the target receives is told by the
\* per-call context, and every delivery to the outward caller by what the
\* target did, the same under every configuration of the sinks (both, logs
\* only, metrics only, none): every completion is answered once, by the
\* delivery Answers names; and a sink that is absent gets no emission and
\* raises nothing.
C20_SinksDoNotInfluence ==
    broken = "none" =>
        \A c \in Invoked :
            /\ \A i \in At(c, {"target"}) :
                  trace[i].argv = ExpectedArgv(c) /\ trace[i].ctx = ExpectedContext(c)
            /\ \A j \in At(c, OutcomeOps) :
                  IF \E i \in At(c, {"completion"}) : i < j
                  THEN OwnOutcome(c)
                  ELSE NoContextToMake(c, j)
            /\ \A i \in At(c, {"completion"}) :
                  (trace[i].kind # "calledback" \/ calls[c].pc = "done" \/ calls[c].runs > 0) =>
                      Cardinality({j \in At(c, OutcomeOps) :
                                      j > i /\ \A k \in At(c, {"completion"}) : k <= i \/ k > j}) = 1
            /\ At(c, {"uncaught"}) = {}
            /\ ~HasLogs => At(c, {"log"}) = {}
            /\ ~HasMetrics => At(c, {"gauge"}) = {}
\* Failing and successful invocations ended with no sink configured at all.
C20_Witness ==
    /\ config.telemetry = "absent"
    /\ \E c \in Invoked :
          /\ HasEnded(c) /\ TargetCalled(c)
          /\ \E i \in TargetErrors(c) : Truthy(trace[i].err)
          /\ At(c, {"finish"}) # {}

====
